---- MODULE Spec2Model ----
(***************************************************************************)
(* freud.py: the fpaper byte-stream decoder (FPaper_Extract) and the       *)
(* arrow-key pager (Totem).                                                *)
(*                                                                         *)
(* Characters and bytes are their integer codes; strings are sequences of  *)
(* codes.  Spec is the decoder reading a file byte by byte; PagerSpec is   *)
(* the pager's key loop over a decoded document.                           *)
(***************************************************************************)
EXTENDS Integers, Sequences, FiniteSets, TLC

\* ------------------------------------------------------------------ bounds
\* bytes read from the file
MaxLen == 13
\* bytes that fail to match while the prologue is still awaited
MaxJunk == 1
\* the pager's terminal: rows in 0..MaxRows, columns in 0..MaxCols
MaxRows == 1
MaxCols == 5
\* characters of the decoded document handed to the pager
MaxText == 3
MaxScope == 9

\* ------------------------------------------------- module level constants
escape == 27
up == 65
down == 66

\* ---------------------------------------------------------- FPaperMarkers
START_MARKER == 2
START_MARKER_2 == 70
START_MARKER_3 == 80
START_MARKER_4 == 97
START_MARKER_5 == 103
START_MARKER_6 == 101
START_OF_TEXT == 38
END_OF_TEXT == 21
STYLE_MARKER == 26
LIGHT_SET == 48
BOLD_SET == 49
DIM_SET == 50
ITALIC_SET == 51
UNDERLINED_SET == 52
BLINK_SET == 53
RAPID_BLINK_SET == 54
COLOR_RESET == 114
ALIGN_LEFT_SET == 123
ALIGN_CENTER_SET == 124
ALIGN_RIGHT_SET == 125
ALIGN_RESET == 126

\* -------------------------------------------------------- string helpers
\* '\x1b', '[', 'm', ' ', '\n' and the letters the pager compares with
ESC == 27
LBRACKET == 91
CH_m == 109
SPACE == 32
NEWLINE == 10
CH_q == 113
CH_Q == 81
CH_A == 65
CH_B == 66

\* range(0, n) iterations of  extracted_text += ' '
Spaces(n) == [i \in 1..n |-> SPACE]

\* str(n) as formatted by an f-string: the decimal digits of n >= 0
RECURSIVE Digits(_)
Digits(n) == IF n < 10 THEN <<48 + n>> ELSE Digits(n \div 10) \o <<48 + (n % 10)>>

\* f'\x1b[{n}m'
Sgr(n) == <<ESC, LBRACKET>> \o Digits(n) \o <<CH_m>>

\* bytes.decode('utf-8') of a single byte: the code point, or -1 for the
\* UnicodeDecodeError every byte of 0x80 and above gives
decode_utf8(ch) == IF ch < 128 THEN ch ELSE -1

\* -------------------------------------------------------------- variables
VARIABLES
    rows, cols,         \* the terminal's geometry (TIOCGWINSZ)
    platform,           \* platform.system()
    file,               \* the bytes read from the file so far
    pc,                 \* position of the program
    extract,            \* the FPaper_Extract instance
    file_data, __up__, __down__, __full_length__, __w__, __h__,  \* Totem fields
    old__, new__,       \* Totem's saved attribute sets (ECHO bit of lflag)
    tty_echo, cursor,   \* the terminal: ECHO attribute, cursor shown
    screen,             \* what the last __from__ drew
    keys,               \* characters read by getchar in the current pass
    teardown,           \* the steps of init_buffer's finally block called
    raised              \* init_buffer was left by an exception

vars == <<rows, cols, platform, file, pc, extract, file_data, __up__,
          __down__, __full_length__, __w__, __h__, old__, new__, tty_echo,
          cursor, screen, keys, teardown, raised>>

totemVars == <<file_data, __up__, __down__, __full_length__, __w__, __h__,
               old__, new__, tty_echo, cursor, screen, keys, teardown,
               raised>>

\* get_terminal_size() returns (rows, cols)
get_terminal_size == <<rows, cols>>

\* ---------------------------------------------------------- FPaper_Extract
\* FPaper_Extract.__init__ ; __w__, __h__ = get_terminal_size()
NewExtract(size) ==
    [ extracted_text |-> <<>>, get_align_text |-> <<>>,
      is_start_marker |-> FALSE, is_start_marker_2 |-> FALSE,
      is_start_marker_3 |-> FALSE, is_start_marker_4 |-> FALSE,
      is_start_marker_5 |-> FALSE, is_start_marker_6 |-> FALSE,
      is_start_of_text |-> FALSE, is_end_of_text |-> FALSE,
      is_style_marker |-> FALSE,
      is_align |-> FALSE, is_left_align |-> FALSE,
      is_center_align |-> FALSE, is_right_align |-> FALSE,
      is_reset_align |-> FALSE,
      __w__ |-> size[1], __h__ |-> size[2] ]

\* left with the padded text assigned instead of appended
left_Assign(self, width, text) ==
    [self EXCEPT !.extracted_text = text \o Spaces(width)]

left(self, width, text) ==
    [self EXCEPT !.extracted_text = @ \o text \o Spaces(width)]

center(self, width, text) ==
    [self EXCEPT !.extracted_text = @ \o Spaces(width) \o text \o Spaces(width)]

right(self, width, text) ==
    [self EXCEPT !.extracted_text = @ \o Spaces(width * 2) \o text]

\* the colour ranges with the lower end of the first off by one
InColorRange_Low(data) == (39 <= data /\ data <= 49) \/ (100 <= data /\ data <= 109)

\* the condition of the generic colour branch of detect_style
InColorRange(data) == (40 <= data /\ data <= 49) \/ (100 <= data /\ data <= 109)

\* the shortcut table with the italic and underline sequences exchanged
ShortcutEscape_Swapped(ch) ==
    CASE ch = LIGHT_SET -> Sgr(0)
      [] ch = BOLD_SET -> Sgr(1)
      [] ch = DIM_SET -> Sgr(2)
      [] ch = ITALIC_SET -> Sgr(4)
      [] ch = UNDERLINED_SET -> Sgr(3)
      [] ch = BLINK_SET -> Sgr(5)
      [] OTHER -> <<>>

\* the escape sequences of the six platform independent shortcuts
ShortcutEscape(ch) ==
    CASE ch = LIGHT_SET -> Sgr(0)
      [] ch = BOLD_SET -> Sgr(1)
      [] ch = DIM_SET -> Sgr(2)
      [] ch = ITALIC_SET -> Sgr(3)
      [] ch = UNDERLINED_SET -> Sgr(4)
      [] ch = BLINK_SET -> Sgr(5)
      [] OTHER -> <<>>

\* the flush of the reset-alignment branch, before the flags are cleared
\* the flush with the Left and Center paddings exchanged
AlignFlush_Swapped(self) ==
    IF self.is_center_align THEN left(self, self.__w__, self.get_align_text)
    ELSE IF self.is_left_align THEN center(self, self.__w__, self.get_align_text)
    ELSE IF self.is_right_align THEN right(self, self.__w__, self.get_align_text)
    ELSE self

AlignFlush(self) ==
    IF self.is_center_align THEN center(self, self.__w__, self.get_align_text)
    ELSE IF self.is_left_align THEN left(self, self.__w__, self.get_align_text)
    ELSE IF self.is_right_align THEN right(self, self.__w__, self.get_align_text)
    ELSE self

\* detect_style: [self |-> the instance afterwards, exc |-> it raised]
detect_style(self, ch, sys) ==
    IF ch \in {LIGHT_SET, BOLD_SET, DIM_SET, ITALIC_SET, UNDERLINED_SET, BLINK_SET}
    THEN [self |-> [self EXCEPT !.extracted_text = @ \o ShortcutEscape(ch)],
          exc |-> FALSE]
    ELSE IF ch = RAPID_BLINK_SET
    THEN [self |-> IF sys = "Windows"
                   THEN [self EXCEPT !.extracted_text = @ \o Sgr(6)]
                   ELSE self,
          exc |-> FALSE]
    ELSE IF ch = ALIGN_LEFT_SET
    THEN [self |-> [self EXCEPT !.is_align = TRUE, !.is_right_align = FALSE,
                                !.is_center_align = FALSE,
                                !.is_reset_align = FALSE,
                                !.is_left_align = TRUE],
          exc |-> FALSE]
    ELSE IF ch = ALIGN_CENTER_SET
    THEN [self |-> [self EXCEPT !.is_align = TRUE, !.is_right_align = FALSE,
                                !.is_left_align = FALSE,
                                !.is_reset_align = FALSE,
                                !.is_center_align = TRUE],
          exc |-> FALSE]
    ELSE IF ch = ALIGN_RIGHT_SET
    THEN [self |-> [self EXCEPT !.is_align = TRUE, !.is_center_align = FALSE,
                                !.is_left_align = FALSE,
                                !.is_reset_align = FALSE,
                                !.is_right_align = TRUE],
          exc |-> FALSE]
    ELSE IF ch = ALIGN_RESET
    THEN [self |-> [AlignFlush(self) EXCEPT !.is_align = FALSE,
                                !.is_center_align = FALSE,
                                !.is_left_align = FALSE,
                                !.is_reset_align = FALSE,
                                !.is_right_align = FALSE,
                                !.get_align_text = <<>>],
          exc |-> FALSE]
    ELSE IF ch = COLOR_RESET
    THEN [self |-> [self EXCEPT !.extracted_text = @ \o Sgr(0)], exc |-> FALSE]
    ELSE LET data == decode_utf8(ch) IN
         IF data = -1 THEN [self |-> self, exc |-> TRUE]
         ELSE IF InColorRange(data)
         THEN [self |-> [self EXCEPT !.extracted_text = @ \o Sgr(data - 10)],
               exc |-> FALSE]
         ELSE [self |-> self, exc |-> FALSE]

\* the text-region branch with the test of is_align inverted
detect_text_Inverted(self, ch) ==
    IF ch = STYLE_MARKER
    THEN [self |-> [self EXCEPT !.is_style_marker = TRUE], exc |-> FALSE]
    ELSE IF ch = END_OF_TEXT
    THEN [self |-> [self EXCEPT !.is_end_of_text = TRUE], exc |-> FALSE]
    ELSE IF decode_utf8(ch) = -1 THEN [self |-> self, exc |-> TRUE]
    ELSE IF ~self.is_align
    THEN [self |-> [self EXCEPT !.get_align_text = Append(@, decode_utf8(ch))],
          exc |-> FALSE]
    ELSE [self |-> [self EXCEPT !.extracted_text = Append(@, decode_utf8(ch))],
          exc |-> FALSE]

\* the text-region branch of detect (elif self.is_start_of_text)
detect_text(self, ch) ==
    IF ch = STYLE_MARKER
    THEN [self |-> [self EXCEPT !.is_style_marker = TRUE], exc |-> FALSE]
    ELSE IF ch = END_OF_TEXT
    THEN [self |-> [self EXCEPT !.is_end_of_text = TRUE], exc |-> FALSE]
    ELSE IF decode_utf8(ch) = -1 THEN [self |-> self, exc |-> TRUE]
    ELSE IF self.is_align
    THEN [self |-> [self EXCEPT !.get_align_text = Append(@, decode_utf8(ch))],
          exc |-> FALSE]
    ELSE [self |-> [self EXCEPT !.extracted_text = Append(@, decode_utf8(ch))],
          exc |-> FALSE]

\* the prologue chain of detect: each flag is assigned the comparison's result
detect_prologue(self, ch) ==
    IF ~self.is_start_marker
    THEN [self EXCEPT !.is_start_marker = (ch = START_MARKER)]
    ELSE IF ~self.is_start_marker_2
    THEN [self EXCEPT !.is_start_marker_2 = (ch = START_MARKER_2)]
    ELSE IF ~self.is_start_marker_3
    THEN [self EXCEPT !.is_start_marker_3 = (ch = START_MARKER_3)]
    ELSE IF ~self.is_start_marker_4
    THEN [self EXCEPT !.is_start_marker_4 = (ch = START_MARKER_4)]
    ELSE IF ~self.is_start_marker_5
    THEN [self EXCEPT !.is_start_marker_5 = (ch = START_MARKER_5)]
    ELSE IF ~self.is_start_marker_6
    THEN [self EXCEPT !.is_start_marker_6 = (ch = START_MARKER_6)]
    ELSE [self EXCEPT !.is_start_of_text = (ch = START_OF_TEXT)]

\* detect: a raise inside detect_style leaves is_style_marker set
detect(self, ch, sys) ==
    IF self.is_style_marker
    THEN LET r == detect_style(self, ch, sys) IN
         IF r.exc THEN r
         ELSE [self |-> [r.self EXCEPT !.is_style_marker = FALSE], exc |-> FALSE]
    ELSE IF ~self.is_start_of_text
    THEN [self |-> detect_prologue(self, ch), exc |-> FALSE]
    ELSE detect_text(self, ch)

\* ------------------------------------------------------- the bytes offered
Prologue == <<START_MARKER, START_MARKER_2, START_MARKER_3, START_MARKER_4,
              START_MARKER_5, START_MARKER_6>>
Header == Prologue \o <<START_OF_TEXT>>

\* how many of the seven header bytes the instance has matched
Matched(self) ==
    IF ~self.is_start_marker THEN 0
    ELSE IF ~self.is_start_marker_2 THEN 1
    ELSE IF ~self.is_start_marker_3 THEN 2
    ELSE IF ~self.is_start_marker_4 THEN 3
    ELSE IF ~self.is_start_marker_5 THEN 4
    ELSE IF ~self.is_start_marker_6 THEN 5
    ELSE IF ~self.is_start_of_text THEN 6
    ELSE 7

\* bytes tried while the header is awaited, besides the awaited one
JunkBytes == {0}

\* bytes tried in the text region: 'A', 'B', the two markers and 0xC3, the
\* first byte of a two-byte UTF-8 character
TextBytes == {65, 66, STYLE_MARKER, END_OF_TEXT, 195}

\* bytes tried after a style marker
ArgBytes == {LIGHT_SET, BOLD_SET, DIM_SET, ITALIC_SET, UNDERLINED_SET,
             BLINK_SET, RAPID_BLINK_SET, COLOR_RESET, ALIGN_LEFT_SET,
             ALIGN_CENTER_SET, ALIGN_RIGHT_SET, ALIGN_RESET,
             39, 40, 42, 100, 105, 109, 110,
             STYLE_MARKER, END_OF_TEXT, 195}

\* the bytes the file may hold next, given what was read
NextBytes ==
    IF extract.is_style_marker THEN ArgBytes
    ELSE IF extract.is_start_of_text THEN TextBytes
    ELSE {Header[Matched(extract) + 1]}
         \cup (IF Len(file) - Matched(extract) < MaxJunk THEN JunkBytes ELSE {})

\* Totem.clear(): nothing is drawn, the cursor is at the home position
Cleared == [lines |-> <<>>, up_to |-> 0]

\* the terminal geometries (rows, columns) the decoder is run under
TermSizes == {<<1, 2>>, <<2, 2>>}

\* ------------------------------------------------------------------- Init
\* Totem.__init__ up to the call of extract(): the Totem fields hold their
\* first values and the FPaper_Extract instance is freshly constructed
Init ==
    /\ \E size \in TermSizes : rows = size[1] /\ cols = size[2]
    /\ platform \in {"Linux", "Windows"}
    /\ file = <<>>
    /\ pc = "extract"
    /\ extract = NewExtract(get_terminal_size)
    /\ file_data = <<>>
    /\ __up__ = 0
    /\ __down__ = 0
    /\ __full_length__ = 0
    /\ __w__ = 0
    /\ __h__ = 0
    /\ old__ = TRUE
    /\ new__ = TRUE
    /\ tty_echo = TRUE
    /\ cursor = TRUE
    /\ screen = Cleared
    /\ keys = <<>>
    /\ teardown = <<>>
    /\ raised = FALSE

\* -------------------------------------------------- FPaper_Extract.extract
\* the loop that never tests is_end_of_text
loop_breaks_Never(self) == FALSE

\* if self.is_end_of_text: break
loop_breaks(self) == self.is_end_of_text

\* one pass of the while loop: a byte was read, is_end_of_text is not set,
\* detect(byte) runs; an exception leaves extract() without a return value
extract_detect ==
    /\ pc = "extract"
    /\ ~loop_breaks(extract)
    /\ Len(file) < MaxLen
    /\ \E byte \in NextBytes :
         LET r == detect(extract, byte, platform) IN
         /\ file' = Append(file, byte)
         /\ extract' = r.self
         /\ pc' = IF r.exc THEN "raised" ELSE "extract"
    /\ UNCHANGED <<rows, cols, platform>>
    /\ UNCHANGED totemVars

\* a byte was read but is_end_of_text is set: break, return extracted_text
extract_break ==
    /\ pc = "extract"
    /\ loop_breaks(extract)
    /\ Len(file) < MaxLen + 1
    /\ \E byte \in {65, STYLE_MARKER} :
         file' = Append(file, byte)
    /\ pc' = "returned"
    /\ UNCHANGED <<rows, cols, platform, extract>>
    /\ UNCHANGED totemVars

\* file.read(1) returned b'': the loop ends, return extracted_text
extract_eof ==
    /\ pc = "extract"
    /\ pc' = "returned"
    /\ UNCHANGED <<rows, cols, platform, file, extract>>
    /\ UNCHANGED totemVars

Next == extract_detect \/ extract_break \/ extract_eof

Spec == Init /\ [][Next]_vars

\* the decoder fed documents of alignment scopes: a header without stray
\* bytes, then up to MaxScope bytes of literals, alignment codes and bold
ScopeText == {65, 66, STYLE_MARKER, END_OF_TEXT, 195}
ScopeArgs == {ALIGN_LEFT_SET, ALIGN_CENTER_SET, ALIGN_RIGHT_SET, ALIGN_RESET,
              BOLD_SET}
ScopeBytes ==
    IF extract.is_style_marker THEN ScopeArgs
    ELSE IF extract.is_start_of_text THEN ScopeText
    ELSE {Header[Matched(extract) + 1]}

\* one pass of the loop of extract() over such a document
scope_detect ==
    /\ pc = "extract"
    /\ ~loop_breaks(extract)
    /\ Len(file) < Len(Header) + MaxScope
    /\ \E byte \in ScopeBytes :
         LET r == detect(extract, byte, platform) IN
         /\ file' = Append(file, byte)
         /\ extract' = r.self
         /\ pc' = IF r.exc THEN "raised" ELSE "extract"
    /\ UNCHANGED <<rows, cols, platform>>
    /\ UNCHANGED totemVars

ScopeNext == scope_detect \/ extract_break \/ extract_eof

ScopeSpec == Init /\ [][ScopeNext]_vars

\* ------------------------------------------------------------------ Totem
\* extract() run to its end over a whole file that raises nothing
RECURSIVE extract_all(_, _, _)
extract_all(self, bytes, sys) ==
    IF bytes = <<>> \/ self.is_end_of_text THEN self
    ELSE extract_all(detect(self, Head(bytes), sys).self, Tail(bytes), sys)

\* the characters str.splitlines() breaks a line at
LineBreaks == {10, 11, 12, 13, 28, 29, 30, 133, 8232, 8233}

\* str.splitlines(): no empty last line after a final break, '\r\n' is one
\* break
RECURSIVE splitlines_from(_, _, _)
splitlines_from(s, i, cur) ==
    IF i > Len(s) THEN (IF cur = <<>> THEN <<>> ELSE <<cur>>)
    ELSE IF s[i] \in LineBreaks
    THEN <<cur>> \o splitlines_from(
             s, IF s[i] = 13 /\ i < Len(s) /\ s[i + 1] = 10 THEN i + 2 ELSE i + 1,
             <<>>)
    ELSE splitlines_from(s, i + 1, Append(cur, s[i]))
splitlines(s) == splitlines_from(s, 1, <<>>)

\* __down__ is a float in the source (h / 3.95 = 20 h / 79, then +1 and -1
\* steps); the model holds 79 * __down__, an integer.  The comparisons with
\* integers agree with the float's unless 20 h / 79 is itself an integer.
DownScale == 79
WindowHeight(h) == 20 * h

\* __from__(False): the lines with index i < __down__ are printed, then
\* up_to(__up__)
from_down(data, dwn, upv) ==
    LET lines == splitlines(data)
        shown == {i \in 1..Len(lines) : DownScale * (i - 1) < dwn}
    IN [lines |-> SubSeq(lines, 1, Cardinality(shown)), up_to |-> upv]

\* the Up guard admitting top = 0
can_scroll_up_Zero(upv) == 0 <= upv
\* the Down guard stopping one line early
can_scroll_down_Early(dwn, full) == dwn + DownScale < DownScale * full

\* the Down guard admitting a bottom counter equal to the line total
can_scroll_down_Inclusive(dwn, full) == dwn <= DownScale * full

\* the guards of the two arrow branches of init_buffer
can_scroll_up(upv) == 1 <= upv
can_scroll_down(dwn, full) == dwn < DownScale * full

\* str.lower() of one character
lower(ch) == IF 65 <= ch /\ ch <= 90 THEN ch + 32 ELSE ch

\* the documents handed to the pager and the keys typed at it
RECURSIVE SeqsUpTo(_, _)
SeqsUpTo(S, n) ==
    IF n = 0 THEN {<<>>}
    ELSE LET shorter == SeqsUpTo(S, n - 1)
         IN shorter \cup {Append(q, x) : q \in {t \in shorter : Len(t) = n - 1}, x \in S}
PagerTexts == SeqsUpTo({65, NEWLINE}, MaxText)
Keys == {escape, LBRACKET, up, down, CH_q, CH_Q, 120}

\* Totem.__init__ has run: the document was decoded, the counters set from
\* its line count, the geometry and the terminal attributes read twice
PagerInit ==
    /\ rows \in 0..MaxRows
    /\ cols \in 0..MaxCols
    /\ platform \in {"Linux", "Windows"}
    /\ \E text \in PagerTexts : file = Header \o text
    /\ extract = extract_all(NewExtract(get_terminal_size), file, platform)
    /\ pc = "init_buffer"
    /\ file_data = extract.extracted_text
    /\ __up__ = 0
    /\ __down__ = DownScale * Len(splitlines(file_data))
    /\ __full_length__ = Len(splitlines(file_data))
    /\ __w__ = get_terminal_size[1]
    /\ __h__ = get_terminal_size[2]
    /\ tty_echo \in BOOLEAN
    /\ old__ = tty_echo
    /\ new__ = tty_echo
    /\ cursor = TRUE
    /\ screen = Cleared
    /\ keys = <<>>
    /\ teardown = <<>>
    /\ raised = FALSE

\* init_buffer up to the first getchar: the first window is drawn, the
\* cursor hidden, ECHO switched off
init_buffer ==
    /\ pc = "init_buffer"
    /\ __down__' = WindowHeight(__h__)
    /\ screen' = from_down(file_data, __down__', __up__)
    /\ cursor' = FALSE
    /\ new__' = FALSE
    /\ tty_echo' = new__'
    /\ pc' = "getchar1"
    /\ UNCHANGED <<rows, cols, platform, file, extract, file_data, __up__,
                   __full_length__, __w__, __h__, old__, keys, teardown,
                   raised>>

\* Writes to stdout (print) and reads of stdin may raise; the termios calls
\* succeed.  In the finally block the print of enable_cursor or of clear may
\* be the one that raises.
TeardownFaults == {"none", "enable_cursor", "clear"}

\* the finally block of init_buffer, entered with the screen as scr and with
\* an exception pending or not: enable_cursor(), clear(), tcsetattr(old__),
\* one after the other, a raise leaving the block at once
finally_block(fail, pending, scr) ==
    /\ teardown' = CASE fail = "enable_cursor" -> <<"enable_cursor">>
                     [] fail = "clear" -> <<"enable_cursor", "clear">>
                     [] OTHER -> <<"enable_cursor", "clear", "tcsetattr">>
    /\ cursor' = (IF fail = "enable_cursor" THEN cursor ELSE TRUE)
    /\ screen' = (IF fail = "none" THEN Cleared ELSE scr)
    /\ tty_echo' = (IF fail = "none" THEN old__ ELSE tty_echo)
    /\ raised' = (pending \/ fail # "none")
    /\ pc' = "Terminating"

\* the first getchar of a pass: q or Q breaks, and the finally block shows
\* the cursor, clears the screen and sets the attributes saved in old__
getchar_first ==
    /\ pc = "getchar1"
    /\ \E ch \in Keys :
         /\ keys' = <<ch>>
         /\ IF lower(ch) = CH_q
            THEN \E fail \in TeardownFaults : finally_block(fail, FALSE, screen)
            ELSE /\ pc' = "getchar2"
                 /\ UNCHANGED <<cursor, screen, tty_echo, teardown, raised>>
    /\ UNCHANGED <<rows, cols, platform, file, extract, file_data, __up__,
                   __down__, __full_length__, __w__, __h__, old__, new__>>

\* the second getchar: the character is read and dropped
getchar_second ==
    /\ pc = "getchar2"
    /\ \E ch \in Keys : keys' = Append(keys, ch)
    /\ pc' = "getchar3"
    /\ UNCHANGED <<rows, cols, platform, file, extract, file_data, __up__,
                   __down__, __full_length__, __w__, __h__, old__, new__,
                   tty_echo, cursor, screen, teardown, raised>>

\* the third getchar and the two arrow branches
getchar_third ==
    /\ pc = "getchar3"
    /\ \E ch \in Keys :
         /\ keys' = Append(keys, ch)
         /\ IF ch = CH_A /\ can_scroll_up(__up__)
            THEN /\ __up__' = __up__ - 1
                 /\ __down__' = __down__ - DownScale
                 /\ screen' = from_down(file_data, __down__', __up__')
            ELSE IF ch = CH_B /\ can_scroll_down(__down__, __full_length__)
            THEN /\ __down__' = __down__ + DownScale
                 /\ __up__' = __up__ + 1
                 /\ screen' = from_down(file_data, __down__', __up__')
            ELSE UNCHANGED <<__up__, __down__, screen>>
    /\ pc' = "getchar1"
    /\ UNCHANGED <<rows, cols, platform, file, extract, file_data,
                   __full_length__, __w__, __h__, old__, new__, tty_echo,
                   cursor, teardown, raised>>

\* sys.stdin.read(1) raises in any of the three getchar calls: getchar's own
\* finally sets the attributes it read on entry, the exception leaves the
\* loop and the finally block of init_buffer runs
getchar_raises ==
    /\ pc \in {"getchar1", "getchar2", "getchar3"}
    /\ \E fail \in TeardownFaults : finally_block(fail, TRUE, screen)
    /\ UNCHANGED <<rows, cols, platform, file, extract, file_data, __up__,
                   __down__, __full_length__, __w__, __h__, old__, new__,
                   keys>>

\* an arrow branch has moved the counters and a print of __from__ raises:
\* that of clear() (nothing drawn yet), of the lines (screen cleared) or of
\* up_to (lines drawn, cursor not moved)
redraw_raises ==
    /\ pc = "getchar3"
    /\ \E ch \in Keys :
         /\ keys' = Append(keys, ch)
         /\ \/ /\ ch = CH_A /\ can_scroll_up(__up__)
               /\ __up__' = __up__ - 1
               /\ __down__' = __down__ - DownScale
            \/ /\ ch = CH_B /\ ~(ch = CH_A /\ can_scroll_up(__up__))
               /\ can_scroll_down(__down__, __full_length__)
               /\ __down__' = __down__ + DownScale
               /\ __up__' = __up__ + 1
         /\ \E scr \in {screen, Cleared,
                         [from_down(file_data, __down__', __up__') EXCEPT !.up_to = 0]} :
              \E fail \in TeardownFaults : finally_block(fail, TRUE, scr)
    /\ UNCHANGED <<rows, cols, platform, file, extract, file_data,
                   __full_length__, __w__, __h__, old__, new__>>

PagerNext ==
    \/ init_buffer \/ getchar_first \/ getchar_second \/ getchar_third
    \/ getchar_raises \/ redraw_raises

PagerSpec == PagerInit /\ [][PagerNext]_vars

\* ------------------------------------------------------- decoder claims
\* a step of the loop that hands a byte to detect while a style argument is
\* pending, and the byte it hands over
StyleArgStep ==
    /\ pc = "extract"
    /\ extract.is_style_marker
    /\ Len(file') = Len(file) + 1
ArgByte == file'[Len(file')]

\* the bytes after the seven header bytes
Body == SubSeq(file, Len(Header) + 1, Len(file))
HasHeader == Len(file) >= Len(Header) /\ SubSeq(file, 1, Len(Header)) = Header

\* C1: if the byte at some position k in 1..6 differs from the k-th prologue
\* byte, extract() returns an empty buffer, whatever bytes follow.
C1_WrongPrologueByteGivesEmpty ==
    (pc = "returned"
       /\ \E k \in 1..6 : k <= Len(file) /\ file[k] # Prologue[k])
    => extract.extracted_text = <<>>

\* the well-formed bodies of C2: literal ASCII bytes and style-marker +
\* shortcut pairs, closed by end-of-text
SixShortcuts == {48, 49, 50, 51, 52, 53}
RECURSIVE WellFormedBody(_)
WellFormedBody(s) ==
    IF s = <<>> THEN FALSE
    ELSE IF s[1] = 21 THEN TRUE
    ELSE IF s[1] = 26
    THEN Len(s) >= 2 /\ s[2] \in SixShortcuts
         /\ WellFormedBody(SubSeq(s, 3, Len(s)))
    ELSE s[1] < 128 /\ WellFormedBody(Tail(s))

\* what C2 says such a body decodes to: ESC [ d m for the shortcut 0x30 + d
RECURSIVE Rendered(_)
Rendered(s) ==
    IF s = <<>> \/ s[1] = 21 THEN <<>>
    ELSE IF s[1] = 26
    THEN <<27, 91, s[2], 109>> \o Rendered(SubSeq(s, 3, Len(s)))
    ELSE <<s[1]>> \o Rendered(Tail(s))

\* C2: for a well-formed document without alignment codes extract() returns
\* the literal characters in input order, each style-marker + shortcut pair
\* replaced in place by its escape sequence.
C2_WellFormedDocumentRendered ==
    (pc = "returned" /\ HasHeader /\ WellFormedBody(Body))
    => extract.extracted_text = Rendered(Body)

\* prologue, start-of-text, 'A', style-marker, bold, 'B', end-of-text has
\* been decoded to 'A' ESC[1m 'B'
C2_Witness ==
    /\ pc = "returned"
    /\ file = Header \o <<65, 26, 49, 66, 21>>
    /\ extract.extracted_text = <<65, 27, 91, 49, 109, 66>>

\* C3: on reset-alignment the scratch text T is flushed with padding counted
\* in the terminal's column count W: Left T + W spaces, Center W spaces + T +
\* W spaces, Right 2*W spaces + T.
C3_FlushPadsByTerminalWidth ==
    [][ (StyleArgStep /\ ArgByte = ALIGN_RESET)
        => LET T == extract.get_align_text
               W == cols
               pad == [i \in 1..W |-> 32]
           IN extract'.extracted_text = extract.extracted_text \o
                (IF extract.is_center_align THEN pad \o T \o pad
                 ELSE IF extract.is_left_align THEN T \o pad
                 ELSE IF extract.is_right_align THEN pad \o pad \o T
                 ELSE <<>>) ]_vars

\* C4: a style-argument byte v in 40..49 or 100..109 appends exactly
\* ESC [ (v - 10) m to the output buffer.
C4_ColourArgumentEmitsVMinus10 ==
    [][ (StyleArgStep /\ (ArgByte \in 40..49 \/ ArgByte \in 100..109))
        => extract'.extracted_text =
             extract.extracted_text \o <<27, 91>> \o Digits(ArgByte - 10) \o <<109>>
      ]_vars

\* shortcut, colour-reset and alignment codes
RecognisedArgs == {48, 49, 50, 51, 52, 53, 54, 114, 123, 124, 125, 126}

\* the step changed no field of the decoder but the pending-style flag
OnlyPendingCleared ==
    /\ pc' = "extract"
    /\ extract' = [extract EXCEPT !.is_style_marker = FALSE]

C6_DecoderNeverRaises == pc # "raised"

\* C14: the byte after a style-marker byte in the text region is always
\* consumed as the style argument and the pending flag cleared, whatever its
\* value: decoding goes on, end-of-text is not recognised and no new
\* pending flag is set.
C14_ArgumentAlwaysConsumed ==
    [][ StyleArgStep
        => /\ pc' = "extract"
           /\ ~extract'.is_style_marker
           /\ ~extract'.is_end_of_text ]_vars

\* C15: once end-of-text has been recognised no later byte is passed to
\* detect(): the buffer and every flag keep their values and extract()
\* returns.
C15_NothingAfterEndOfText ==
    [][ (pc = "extract" /\ extract.is_end_of_text)
        => (extract' = extract /\ pc' = "returned") ]_vars

\* end-of-text was recognised after 'A', a style marker was read after it
\* and extract() returned 'A' with no style argument pending
C15_Witness ==
    /\ pc = "returned"
    /\ file = Header \o <<65, 21, 26>>
    /\ extract.is_end_of_text
    /\ ~extract.is_style_marker
    /\ extract.extracted_text = <<65>>

\* C16: at most one of is_left_align, is_center_align, is_right_align is
\* true, is_align is true exactly when one of them is, and get_align_text is
\* non-empty only while is_align is true.
C16_AlignmentFlagsExclusive ==
    /\ ~(extract.is_left_align /\ extract.is_center_align)
    /\ ~(extract.is_left_align /\ extract.is_right_align)
    /\ ~(extract.is_center_align /\ extract.is_right_align)
    /\ extract.is_align <=> (extract.is_left_align \/ extract.is_center_align
                               \/ extract.is_right_align)
    /\ extract.get_align_text # <<>> => extract.is_align

\* Left was set, 'A' collected, then Center set without a reset, 'B'
\* collected: Center alone is active and the scratch holds both
C16_Witness ==
    /\ file = Header \o <<26, 123, 65, 26, 124, 66>>
    /\ extract.is_center_align
    /\ ~extract.is_left_align
    /\ extract.is_align
    /\ extract.get_align_text = <<65, 66>>

IsPrefix(a, b) == Len(a) <= Len(b) /\ SubSeq(b, 1, Len(a)) = a

\* how many of the seven header bytes occur, in order, within the bytes s
\* when n of them were found before s
RECURSIVE HeaderScan(_, _)
HeaderScan(s, n) ==
    IF s = <<>> \/ n = Len(Header) THEN n
    ELSE HeaderScan(Tail(s), IF s[1] = Header[n + 1] THEN n + 1 ELSE n)

\* C17: extracted_text before a detect() step is a prefix of its value after
\* the step, and it is empty until the six prologue bytes and the
\* start-of-text byte have all been matched in order.
C17_OutputAppendOnly ==
    /\ [][IsPrefix(extract.extracted_text, extract'.extracted_text)]_vars
    /\ [](HeaderScan(file, 0) < Len(Header) => extract.extracted_text = <<>>)

\* a header with a stray byte inside it, then a literal and an escape
C17_Witness ==
    /\ file = <<2, 0, 70, 80, 97, 103, 101, 38, 65, 26, 49>>
    /\ extract.extracted_text = <<65, 27, 91, 49, 109>>

\* a text-region byte that is neither marker is handed to detect()
LiteralStep ==
    /\ pc = "extract"
    /\ extract.is_start_of_text
    /\ ~extract.is_style_marker
    /\ ~extract.is_end_of_text
    /\ Len(file') = Len(file) + 1
    /\ file'[Len(file')] \notin {STYLE_MARKER, END_OF_TEXT}

\* the arguments that stand for an escape sequence on every platform
EscapeArgs == SixShortcuts \cup {COLOR_RESET} \cup (40..49) \cup (100..109)

\* C18: while an alignment mode is active a style or colour argument appends
\* its escape sequence to extracted_text at once and leaves get_align_text
\* alone, a literal byte goes to get_align_text and leaves extracted_text
\* alone, and the reset appends the padded scratch after all that
\* extracted_text holds, so the scope's escapes precede its text and padding.
C18_EscapesPrecedeScopeText ==
    [][ /\ (StyleArgStep /\ extract.is_align /\ ArgByte \in EscapeArgs)
           => /\ \E d \in 0..99 :
                   extract'.extracted_text = extract.extracted_text \o Sgr(d)
              /\ extract'.get_align_text = extract.get_align_text
        /\ (LiteralStep /\ extract.is_align)
           => /\ extract'.extracted_text = extract.extracted_text
              /\ extract'.get_align_text =
                     Append(extract.get_align_text, file'[Len(file')])
        /\ (StyleArgStep /\ extract.is_align /\ ArgByte = ALIGN_RESET)
           => \E n, m \in 0..(2 * extract.__w__) :
                  extract'.extracted_text =
                      extract.extracted_text \o Spaces(n)
                          \o extract.get_align_text \o Spaces(m) ]_vars

\* the bytes of s after the seven header bytes were found in order, n of
\* them before s
RECURSIVE BodyOf(_, _)
BodyOf(s, n) ==
    IF n = Len(Header) \/ s = <<>> THEN s
    ELSE BodyOf(Tail(s), IF s[1] = Header[n + 1] THEN n + 1 ELSE n)

IsLetter(c) == c \in {65, 66}
Letters(s) == SelectSeq(s, IsLetter)

\* a document body read as scopes: the alignment mode last set (0 for none),
\* the letters of the open scope and the letters that are outside every
\* scope or inside a scope that a reset closed
RECURSIVE ScopeScan(_, _, _, _)
ScopeScan(s, mode, scratch, out) ==
    IF s = <<>> \/ s[1] = END_OF_TEXT
    THEN [mode |-> mode, scratch |-> scratch, out |-> out]
    ELSE IF s[1] = STYLE_MARKER
    THEN IF Len(s) = 1 \/ s[2] = 195
         THEN [mode |-> mode, scratch |-> scratch, out |-> out]
         ELSE IF s[2] \in {ALIGN_LEFT_SET, ALIGN_CENTER_SET, ALIGN_RIGHT_SET}
         THEN ScopeScan(SubSeq(s, 3, Len(s)), s[2], scratch, out)
         ELSE IF s[2] = ALIGN_RESET
         THEN ScopeScan(SubSeq(s, 3, Len(s)), 0, <<>>, out \o scratch)
         ELSE ScopeScan(SubSeq(s, 3, Len(s)), mode, scratch, out)
    ELSE IF ~IsLetter(s[1])
    THEN [mode |-> mode, scratch |-> scratch, out |-> out]
    ELSE IF mode # 0
    THEN ScopeScan(Tail(s), mode, Append(scratch, s[1]), out)
    ELSE ScopeScan(Tail(s), mode, scratch, Append(out, s[1]))

Scopes == ScopeScan(BodyOf(file, 0), 0, <<>>, <<>>)

\* the padding of section 4.1 of the format for the mode m and the width w
Padded(m, w, text) ==
    CASE m = ALIGN_LEFT_SET -> text \o Spaces(w)
      [] m = ALIGN_CENTER_SET -> Spaces(w) \o text \o Spaces(w)
      [] m = ALIGN_RIGHT_SET -> Spaces(2 * w) \o text
      [] OTHER -> <<>>

\* C19: the letters of extracted_text are those outside every scope and those
\* of the scopes a reset closed, so the text of a scope still open when the
\* stream ends or end-of-text is read is absent from the returned buffer; a
\* set code read while a mode is active keeps get_align_text and
\* extracted_text; and the reset appends the scratch with the padding of the
\* mode set last.
C19_ScratchFlushedOnlyAtReset ==
    /\ [](/\ Letters(extract.extracted_text) = Scopes.out
          /\ extract.get_align_text = Scopes.scratch)
    /\ [][ (StyleArgStep /\ extract.is_align
              /\ ArgByte \in {ALIGN_LEFT_SET, ALIGN_CENTER_SET, ALIGN_RIGHT_SET})
           => /\ extract'.get_align_text = extract.get_align_text
              /\ extract'.extracted_text = extract.extracted_text ]_vars
    /\ [][ (StyleArgStep /\ ArgByte = ALIGN_RESET)
           => extract'.extracted_text =
                  extract.extracted_text
                      \o Padded(Scopes.mode, extract.__w__,
                                extract.get_align_text) ]_vars

\* Left set, 'A', Center set without a reset, 'B', reset: both letters are
\* flushed with the padding of Center
C19_Witness ==
    /\ file = Header \o <<26, 123, 65, 26, 124, 66, 26, 126>>
    /\ extract.extracted_text =
           Spaces(extract.__w__) \o <<65, 66>> \o Spaces(extract.__w__)
    /\ extract.__w__ >= 1
    /\ extract.get_align_text = <<>>

\* --------------------------------------------------------- pager claims
\* the pager loop is waiting in one of its three getchar calls
InKeyLoop == pc \in {"getchar1", "getchar2", "getchar3"}

\* the step completes the three-character sequence ESC [ A / ESC [ B
UpArrowStep == pc = "getchar3" /\ keys' = <<27, 91, 65>> /\ pc' = "getchar1"
DownArrowStep == pc = "getchar3" /\ keys' = <<27, 91, 66>> /\ pc' = "getchar1"

\* top, the bottom counter, the line total and the drawn window
viewport == <<__up__, __down__, __full_length__, screen>>

\* C7: after any sequence of keys 0 <= top <= totalLines; an Up-arrow at
\* top = 0 and a Down-arrow at top = totalLines leave the viewport unchanged.
C7_ScrollBounds ==
    /\ [](0 <= __up__ /\ __up__ <= __full_length__)
    /\ [][ /\ (UpArrowStep /\ __up__ = 0) => UNCHANGED viewport
           /\ (DownArrowStep /\ __up__ = __full_length__) => UNCHANGED viewport
         ]_vars

\* a Down-arrow has just been handled with top at the last of two or more
\* lines (and an Up-arrow may follow down to top = 0)
C7_Witness ==
    /\ pc = "getchar1"
    /\ keys = <<27, 91, 66>>
    /\ __full_length__ >= 2
    /\ __up__ = __full_length__

\* C8 as stated: a Down-arrow received while top < totalLines increments top
\* by one and redraws the window.
C8_DownWhileTopBelowTotal ==
    [][ (DownArrowStep /\ __up__ < __full_length__)
        => (__up__' = __up__ + 1 /\ screen'.up_to = __up__ + 1) ]_vars

\* C8 amended: a Down-arrow received while __down__ (top + windowHeight) is
\* below totalLines increments top and __down__ by one and redraws the
\* window: the lines with index below the new __down__, the cursor moved up
\* by the new top.
C8_DownWhileBottomBelowTotal ==
    [][ (DownArrowStep /\ __down__ < 79 * __full_length__)
        => /\ __up__' = __up__ + 1
           /\ __down__' = __down__ + 79
           /\ screen'.up_to = __up__ + 1
           /\ Len(screen'.lines) =
                Cardinality({i \in 0..(__full_length__ - 1) : 79 * i < __down__'})
      ]_vars

\* repeated Down-arrows have advanced top until the bottom counter reached
\* totalLines, which with a window of at least one line is below totalLines
C8_Witness ==
    /\ pc = "getchar1"
    /\ keys = <<27, 91, 66>>
    /\ __up__ >= 1
    /\ __up__ < __full_length__
    /\ __down__ >= 79 * __full_length__
    /\ __down__ - 79 < 79 * __full_length__
    /\ screen.up_to = __up__

\* C9: while the loop is running, a q or Q key press moves the pager to
\* Terminating, whatever keys were pressed before.
C9_QuitKeyTerminates ==
    [][ (InKeyLoop /\ keys' # keys /\ keys'[Len(keys')] \in {113, 81})
        => pc' = "Terminating" ]_vars

\* C10: only the exact sequences ESC [ A and ESC [ B change the viewport;
\* any other key sequence without a quit leaves top and the drawn window
\* unchanged.
C10_OnlyArrowSequencesScroll ==
    [][ (InKeyLoop /\ pc' # "Terminating" /\ viewport' # viewport)
        => keys' \in {<<27, 91, 65>>, <<27, 91, 66>>} ]_vars

\* C11: on every exit path of the key loop (quit key, or an error raised
\* while reading a key or redrawing), when init_buffer returns or unwinds
\* the terminal attributes equal those captured at construction, the cursor
\* is shown again and the screen is cleared.
C11_TerminalRestoredOnEveryExit ==
    pc = "Terminating" => (tty_echo = old__ /\ cursor /\ screen = Cleared)

\* C12: if re-enabling the cursor or clearing the screen raises, the
\* remaining teardown steps, in particular restoring the original attribute
\* set, are still attempted.
C12_TeardownIsBestEffort ==
    pc = "Terminating" =>
        \A step \in {"enable_cursor", "clear", "tcsetattr"} :
            \E i \in 1..Len(teardown) : teardown[i] = step

\* C13: windowHeight is terminalRows / 3.95, from the row count: the first
\* render prints exactly the lines with index i < terminalRows / 3.95, and
\* every later one the lines with index < top + windowHeight.
C13_WindowHeightFromRows ==
    InKeyLoop =>
        Len(screen.lines) =
            Cardinality({i \in 0..(__full_length__ - 1) :
                             395 * i < 395 * __up__ + 100 * rows})

\* the smallest n >= 0 with n + windowHeight >= totalLines, windowHeight
\* being the __h__ / 3.95 that init_buffer assigned
MinTop ==
    CHOOSE n \in 0..__full_length__ :
        /\ 79 * n + WindowHeight(__h__) >= 79 * __full_length__
        /\ \A m \in 0..(n - 1) :
               79 * m + WindowHeight(__h__) < 79 * __full_length__

\* C20: once init_buffer has set the window, __down__ - __up__ equals the
\* initial window height after any keys; a Down-arrow received while
\* __up__ + windowHeight < totalLines does not hold changes nothing of the
\* viewport; and __up__ never exceeds the smallest n >= 0 with
\* n + windowHeight >= totalLines.
C20_WindowMovesAsAWhole ==
    /\ [](pc # "init_buffer"
            => /\ __down__ - 79 * __up__ = WindowHeight(__h__)
               /\ __up__ <= MinTop)
    /\ [][ (/\ pc = "getchar3"
            /\ keys' = <<27, 91, 66>>
            /\ ~(79 * __up__ + WindowHeight(__h__) < 79 * __full_length__))
           => UNCHANGED viewport ]_vars

\* three lines under a window of 4 / 3.95 lines: Down-arrows have moved top
\* to 2, the bound, which is below the line total
C20_Witness ==
    /\ pc = "getchar1"
    /\ keys = <<27, 91, 66>>
    /\ __h__ = 4
    /\ __full_length__ = 3
    /\ __up__ = 2
    /\ __up__ = MinTop
    /\ __down__ = 79 * 2 + 80

====
